---- MODULE Spec2Model ----
(***************************************************************************)
(* Model of the in-memory task store of main.py: the module globals        *)
(* `tasks` and `task_id_counter` and the four request handlers             *)
(* create_task, get_tasks, update_task and delete_task.                    *)
(*                                                                         *)
(* Python dicts are objects: `tasks` maps an integer key to a reference to *)
(* a dict, and the handlers mutate those dicts in place and return         *)
(* references to them.  The model therefore keeps a heap of dict objects   *)
(* and stores references in `tasks`.  `tasks` itself is an insertion       *)
(* ordered dict, modelled as a sequence of entries.                        *)
(*                                                                         *)
(* Spec     : requests are served one at a time, each handler atomically.  *)
(* SpecConc : handlers run on pool threads and interleave between the      *)
(*            accesses to the shared globals.                              *)
(* SpecScenario : as Spec, with the requests of the concrete scenario.      *)
(***************************************************************************)
EXTENDS Integers, Sequences, FiniteSets, TLC

\* ------------------------------------------------------------------ bounds
MaxId == 3
MaxObjects == 2
MaxRequests == 3
NumThreads == 2

Titles == {"A", "B"}
Descriptions == {"d1"}

Threads == 1..NumThreads

VARIABLES
    tasks,            \* main.py:8   insertion-ordered dict: key -> dict reference
    task_id_counter,  \* main.py:9
    heap,             \* the dict objects created by task.dict(), by reference
    response,         \* Spec: the last request served and what it answered
    prev,             \* history: the answer before `response` when that was a create
    issued,           \* history: the ids returned by create, in order
    deleted,          \* history: the ids deleted successfully
    pc,               \* SpecConc: position of each pool thread
    frame,            \* SpecConc: the locals of the handler each thread runs
    resp,             \* SpecConc: the last answer of each thread
    nreq,             \* SpecConc: the number of requests dispatched so far
    step              \* SpecScenario: how far the run has followed Script, -1 once off it

vars == <<tasks, task_id_counter, heap, response, prev, issued, deleted, pc, frame, resp, nreq,
          step>>

\* ------------------------------------------------------ request bodies
\* A request body that passed validation: title and description are
\* present, completed may be omitted.
TaskInputs ==
    [title : Titles, description : Descriptions]
        \cup [title : Titles, description : Descriptions, completed : BOOLEAN]

\* Variant of Task: the default of `completed` is True.
Task_default_true(body) ==
    [title |-> body.title,
     description |-> body.description,
     completed |-> IF "completed" \in DOMAIN body THEN body.completed ELSE TRUE]

\* Task(**body): the pydantic model fills the default of `completed`.
Task(body) ==
    [title |-> body.title,
     description |-> body.description,
     completed |-> IF "completed" \in DOMAIN body THEN body.completed ELSE FALSE]

\* task.dict(): a dict with one entry per field of the model.
TaskDict(task) == [f \in {"title", "description", "completed"} |-> task[f]]

\* ------------------------------------------------------ dict objects
\* d[k] = v on a dict object.
DictSetItem(d, k, v) == [x \in DOMAIN d \cup {k} |-> IF x = k THEN v ELSE d[x]]

\* Variant of DictUpdate: the dict is replaced by `other` (d = other).
DictUpdate_replace(d, other) == other

\* d.update(other)
DictUpdate(d, other) ==
    [x \in DOMAIN d \cup DOMAIN other |-> IF x \in DOMAIN other THEN other[x] ELSE d[x]]

\* ------------------------------------------------------ the tasks dict
Keys(t) == {t[i].key : i \in 1..Len(t)}

\* k in t
Contains(t, k) == k \in Keys(t)

\* t[k]  (KeyError when absent: callers test Contains first)
GetItem(t, k) == t[CHOOSE i \in 1..Len(t) : t[i].key = k].ref

\* t[k] = r : an existing key keeps its position, a new key goes last.
SetItem(t, k, r) ==
    IF Contains(t, k)
    THEN [i \in 1..Len(t) |-> IF t[i].key = k THEN [key |-> k, ref |-> r] ELSE t[i]]
    ELSE Append(t, [key |-> k, ref |-> r])

\* Variant of Pop: the entry of k and every entry inserted after it are dropped.
Pop_truncate(t, k) == SubSeq(t, 1, (CHOOSE i \in 1..Len(t) : t[i].key = k) - 1)

\* t.pop(k): the dict without the entry of k.
Pop(t, k) == SelectSeq(t, LAMBDA e : e.key # k)

\* Variant of Values: newest first.
Values_reversed(t) == [i \in 1..Len(t) |-> t[Len(t) + 1 - i].ref]

\* list(t.values()): the references in insertion order.
Values(t) == [i \in 1..Len(t) |-> t[i].ref]

\* Variant of Serialize: the first task is left out (off by one).
Serialize_skip(h, refs) == [i \in 1..(Len(refs) - 1) |-> h[refs[i + 1]]]

\* JSON body of a list of dict references.
Serialize(h, refs) == [i \in 1..Len(refs) |-> h[refs[i]]]

\* The record stored under key k.
Record(t, h, k) == h[GetItem(t, k)]

\* ------------------------------------------------------ responses
NoInput == [title |-> "", description |-> ""]
NoResponse == [op |-> "none", task_id |-> 0, input |-> NoInput, status |-> 0, body |-> <<>>]
NotFound == [detail |-> "Task not found"]

\* A dict that nothing references any more: once delete_task has returned the
\* popped dict and it has been serialised, the interpreter frees it.
Freed == [freed |-> TRUE]

InternalServerError == [detail |-> "Internal Server Error"]

\* The locals of a handler invocation: the request (op, task_id, input) and
\* the values the handler holds between two accesses to the globals.
NoFrame == [op |-> "none", task_id |-> 0, input |-> NoInput,
            task_data |-> 0, k |-> 0, v |-> 0, obj |-> 0, ret |-> 0,
            refs |-> <<>>, keys |-> <<>>]

Init ==
    /\ tasks = <<>>
    /\ task_id_counter = 1
    /\ heap = <<>>
    /\ response = NoResponse
    /\ prev = NoResponse
    /\ issued = <<>>
    /\ deleted = {}
    /\ pc = [p \in Threads |-> "idle"]
    /\ frame = [p \in Threads |-> NoFrame]
    /\ resp = [p \in Threads |-> NoResponse]
    /\ nreq = 0
    /\ step = 0

\* ------------------------------------------------------ Spec: one request at a time
\* Variant of create_task: the next id is derived from the size of the store
\* (task_id_counter = len(tasks) + 1) instead of being incremented.
create_task_len(task) ==
    /\ task_id_counter <= MaxId
    /\ LET task_data == Len(heap) + 1
           heap1 == Append(heap, TaskDict(Task(task)))
           tasks1 == SetItem(tasks, task_id_counter, task_data)
           heap2 == [heap1 EXCEPT ![GetItem(tasks1, task_id_counter)] =
                                       DictSetItem(@, "id", task_id_counter)]
           ret == heap2[GetItem(tasks1, task_id_counter)]
       IN /\ tasks' = tasks1
          /\ heap' = heap2
          /\ task_id_counter' = Len(tasks1) + 1
          /\ response' = [op |-> "create", task_id |-> 0, input |-> task,
                          status |-> 200, body |-> ret]
          /\ issued' = Append(issued, ret.id)
    /\ UNCHANGED <<deleted, pc, frame, resp, nreq>>

\* POST /tasks/
create_task(task) ==
    /\ task_id_counter <= MaxId
    /\ LET task_data == Len(heap) + 1
           heap1 == Append(heap, TaskDict(Task(task)))
           tasks1 == SetItem(tasks, task_id_counter, task_data)
           heap2 == [heap1 EXCEPT ![GetItem(tasks1, task_id_counter)] =
                                       DictSetItem(@, "id", task_id_counter)]
           counter1 == task_id_counter + 1
           ret == heap2[GetItem(tasks1, counter1 - 1)]
       IN /\ tasks' = tasks1
          /\ heap' = heap2
          /\ task_id_counter' = counter1
          /\ response' = [op |-> "create", task_id |-> 0, input |-> task,
                          status |-> 200, body |-> ret]
          /\ issued' = Append(issued, ret.id)
    /\ UNCHANGED <<deleted, pc, frame, resp, nreq>>

\* GET /tasks/
get_tasks ==
    /\ response' = [op |-> "list", task_id |-> 0, input |-> NoInput,
                    status |-> 200, body |-> Serialize(heap, Values(tasks))]
    /\ UNCHANGED <<tasks, task_id_counter, heap, issued, deleted, pc, frame, resp, nreq>>

\* Variant of update_task: an unknown id is created instead of refused (upsert).
update_task_upsert(task_id, updated_task) ==
    /\ LET ref == IF Contains(tasks, task_id) THEN GetItem(tasks, task_id) ELSE Len(heap) + 1
           old == IF Contains(tasks, task_id) THEN heap[ref] ELSE [id |-> task_id]
           heap1 == [i \in 1..(IF ref > Len(heap) THEN ref ELSE Len(heap)) |->
                        IF i = ref THEN DictUpdate(old, TaskDict(Task(updated_task)))
                        ELSE heap[i]]
       IN /\ Len(heap) < MaxId + 1
          /\ heap' = heap1
          /\ tasks' = SetItem(tasks, task_id, ref)
          /\ response' = [op |-> "update", task_id |-> task_id, input |-> updated_task,
                          status |-> 200, body |-> heap1[ref]]
    /\ UNCHANGED <<task_id_counter, issued, deleted, pc, frame, resp, nreq>>

\* Variant of update_task: the body is written into every stored dict (the
\* tasks share one dict).
update_task_all(task_id, updated_task) ==
    /\ IF ~Contains(tasks, task_id)
       THEN /\ response' = [op |-> "update", task_id |-> task_id, input |-> updated_task,
                            status |-> 404, body |-> NotFound]
            /\ UNCHANGED heap
       ELSE LET live == {tasks[i].ref : i \in 1..Len(tasks)}
                heap1 == [r \in 1..Len(heap) |->
                             IF r \in live
                             THEN DictUpdate([id |-> heap[r].id], TaskDict(Task(updated_task)))
                             ELSE heap[r]]
            IN /\ heap' = heap1
               /\ response' = [op |-> "update", task_id |-> task_id, input |-> updated_task,
                               status |-> 200, body |-> heap1[GetItem(tasks, task_id)]]
    /\ UNCHANGED <<tasks, task_id_counter, issued, deleted, pc, frame, resp, nreq>>

\* Variant of update_task: only the fields present in the body are written
\* (a merge with the old record, as with dict(exclude_unset=True)).
update_task_patch(task_id, updated_task) ==
    /\ IF ~Contains(tasks, task_id)
       THEN /\ response' = [op |-> "update", task_id |-> task_id, input |-> updated_task,
                            status |-> 404, body |-> NotFound]
            /\ UNCHANGED heap
       ELSE LET heap1 == [heap EXCEPT ![GetItem(tasks, task_id)] =
                                          DictUpdate(@, updated_task)]
            IN /\ heap' = heap1
               /\ response' = [op |-> "update", task_id |-> task_id, input |-> updated_task,
                               status |-> 200, body |-> heap1[GetItem(tasks, task_id)]]
    /\ UNCHANGED <<tasks, task_id_counter, issued, deleted, pc, frame, resp, nreq>>

\* PUT /tasks/{task_id}
update_task(task_id, updated_task) ==
    /\ IF ~Contains(tasks, task_id)
       THEN /\ response' = [op |-> "update", task_id |-> task_id, input |-> updated_task,
                            status |-> 404, body |-> NotFound]
            /\ UNCHANGED heap
       ELSE LET heap1 == [heap EXCEPT ![GetItem(tasks, task_id)] =
                                          DictUpdate(@, TaskDict(Task(updated_task)))]
            IN /\ heap' = heap1
               /\ response' = [op |-> "update", task_id |-> task_id, input |-> updated_task,
                               status |-> 200, body |-> heap1[GetItem(tasks, task_id)]]
    /\ UNCHANGED <<tasks, task_id_counter, issued, deleted, pc, frame, resp, nreq>>

\* Variant of delete_task: deleting the newest task gives its id back
\* (task_id_counter is reset to the deleted id).
delete_task_reuse(task_id) ==
    /\ IF ~Contains(tasks, task_id)
       THEN /\ response' = [op |-> "delete", task_id |-> task_id, input |-> NoInput,
                            status |-> 404, body |-> NotFound]
            /\ UNCHANGED <<tasks, heap, deleted, task_id_counter>>
       ELSE /\ tasks' = Pop(tasks, task_id)
            /\ heap' = [heap EXCEPT ![GetItem(tasks, task_id)] = Freed]
            /\ response' = [op |-> "delete", task_id |-> task_id, input |-> NoInput,
                            status |-> 200, body |-> heap[GetItem(tasks, task_id)]]
            /\ deleted' = deleted \cup {task_id}
            /\ task_id_counter' = IF task_id = task_id_counter - 1
                                  THEN task_id ELSE task_id_counter
    /\ UNCHANGED <<issued, pc, frame, resp, nreq>>

\* DELETE /tasks/{task_id}
delete_task(task_id) ==
    /\ IF ~Contains(tasks, task_id)
       THEN /\ response' = [op |-> "delete", task_id |-> task_id, input |-> NoInput,
                            status |-> 404, body |-> NotFound]
            /\ UNCHANGED <<tasks, heap, deleted>>
       ELSE /\ tasks' = Pop(tasks, task_id)
            /\ heap' = [heap EXCEPT ![GetItem(tasks, task_id)] = Freed]
            /\ response' = [op |-> "delete", task_id |-> task_id, input |-> NoInput,
                            status |-> 200, body |-> heap[GetItem(tasks, task_id)]]
            /\ deleted' = deleted \cup {task_id}
    /\ UNCHANGED <<task_id_counter, issued, pc, frame, resp, nreq>>

TaskIds == 1..(MaxId + 1)

\* History of the request served before this one.
Remember == prev' = IF response.op = "create" THEN response ELSE NoResponse

Next ==
    \/ \E task \in TaskInputs : create_task(task) /\ Remember /\ UNCHANGED step
    \/ get_tasks /\ Remember /\ UNCHANGED step
    \/ \E task_id \in TaskIds, updated_task \in TaskInputs :
           update_task(task_id, updated_task) /\ Remember /\ UNCHANGED step
    \/ \E task_id \in TaskIds : delete_task(task_id) /\ Remember /\ UNCHANGED step

Spec == Init /\ [][Next]_vars

\* ------------------------------------------------------ SpecScenario
\* The same handlers, one request at a time, with the request bodies and ids
\* of the concrete scenario; `step` follows the run along the scenario.
ScenarioInputs ==
    {[title |-> "A", description |-> "d1"],
     [title |-> "B", description |-> "d2", completed |-> TRUE],
     [title |-> "B2", description |-> "d2"]}

ScenarioIds == {1, 2, 99}

\* The requests of the scenario, in order.
Script ==
    <<[op |-> "create", task_id |-> 0, input |-> [title |-> "A", description |-> "d1"]],
      [op |-> "create", task_id |-> 0,
       input |-> [title |-> "B", description |-> "d2", completed |-> TRUE]],
      [op |-> "list", task_id |-> 0, input |-> NoInput],
      [op |-> "delete", task_id |-> 1, input |-> NoInput],
      [op |-> "list", task_id |-> 0, input |-> NoInput],
      [op |-> "update", task_id |-> 2, input |-> [title |-> "B2", description |-> "d2"]],
      [op |-> "update", task_id |-> 99, input |-> NoInput]>>

\* The request answered by r is the i-th of the scenario (the body of the
\* last one, update(99, ...), is free).
Follows(r, i) ==
    /\ r.op = Script[i].op
    /\ r.task_id = Script[i].task_id
    /\ i < Len(Script) => r.input = Script[i].input

Track ==
    step' = IF step \in 0..(Len(Script) - 1) /\ Follows(response', step + 1)
            THEN step + 1 ELSE -1

NextScenario ==
    \/ \E task \in ScenarioInputs : create_task(task) /\ Remember /\ Track
    \/ get_tasks /\ Remember /\ Track
    \/ \E task_id \in ScenarioIds, updated_task \in ScenarioInputs :
           update_task(task_id, updated_task) /\ Remember /\ Track
    \/ \E task_id \in ScenarioIds : delete_task(task_id) /\ Remember /\ Track

SpecScenario == Init /\ [][NextScenario]_vars

\* ====================================================== SpecConc: pool threads
\* The handlers are plain `def` functions, which the framework runs on the
\* threads of a pool.  A thread can be preempted between two bytecodes, so
\* every read or write of `tasks`, `task_id_counter` or a stored dict is a
\* step of its own; the dict operations themselves are atomic.

Goto(p, label) == pc' = [pc EXCEPT ![p] = label]

\* An uncaught KeyError ends the request with a 500.
Raise(p) ==
    /\ resp' = [resp EXCEPT ![p] = [op |-> frame[p].op, task_id |-> frame[p].task_id,
                                    input |-> frame[p].input, status |-> 500,
                                    body |-> InternalServerError]]
    /\ Goto(p, "idle")

\* A request is dispatched to an idle thread.
Recv_create(p, task) ==
    /\ pc[p] = "idle"
    /\ Len(heap) < MaxObjects
    /\ frame' = [frame EXCEPT ![p] = [NoFrame EXCEPT !.op = "create", !.input = task]]
    /\ Goto(p, "create_19")
    /\ nreq < MaxRequests
    /\ nreq' = nreq + 1
    /\ UNCHANGED step
    /\ UNCHANGED <<tasks, task_id_counter, heap, response, prev, issued, deleted, resp>>

Recv_list(p) ==
    /\ pc[p] = "idle"
    /\ frame' = [frame EXCEPT ![p] = [NoFrame EXCEPT !.op = "list"]]
    /\ Goto(p, "get_tasks_27")
    /\ nreq < MaxRequests
    /\ nreq' = nreq + 1
    /\ UNCHANGED step
    /\ UNCHANGED <<tasks, task_id_counter, heap, response, prev, issued, deleted, resp>>

Recv_update(p, task_id, updated_task) ==
    /\ pc[p] = "idle"
    /\ frame' = [frame EXCEPT ![p] = [NoFrame EXCEPT !.op = "update", !.task_id = task_id,
                                                      !.input = updated_task]]
    /\ Goto(p, "update_31")
    /\ nreq < MaxRequests
    /\ nreq' = nreq + 1
    /\ UNCHANGED step
    /\ UNCHANGED <<tasks, task_id_counter, heap, response, prev, issued, deleted, resp>>

Recv_delete(p, task_id) ==
    /\ pc[p] = "idle"
    /\ frame' = [frame EXCEPT ![p] = [NoFrame EXCEPT !.op = "delete", !.task_id = task_id]]
    /\ Goto(p, "delete_38")
    /\ nreq < MaxRequests
    /\ nreq' = nreq + 1
    /\ UNCHANGED step
    /\ UNCHANGED <<tasks, task_id_counter, heap, response, prev, issued, deleted, resp>>

\* line 19: task_data = task.dict()
create_19(p) ==
    /\ pc[p] = "create_19"
    /\ heap' = Append(heap, TaskDict(Task(frame[p].input)))
    /\ frame' = [frame EXCEPT ![p].task_data = Len(heap) + 1]
    /\ Goto(p, "create_20_load")
    /\ UNCHANGED <<tasks, task_id_counter, response, prev, issued, deleted, resp>>
    /\ UNCHANGED <<nreq, step>>

\* line 20: tasks[task_id_counter] = task_data -- the key is read ...
create_20_load(p) ==
    /\ pc[p] = "create_20_load"
    /\ frame' = [frame EXCEPT ![p].k = task_id_counter]
    /\ Goto(p, "create_20_store")
    /\ UNCHANGED <<tasks, task_id_counter, heap, response, prev, issued, deleted, resp>>
    /\ UNCHANGED <<nreq, step>>

\* ... and the dict is stored under it.
create_20_store(p) ==
    /\ pc[p] = "create_20_store"
    /\ tasks' = SetItem(tasks, frame[p].k, frame[p].task_data)
    /\ Goto(p, "create_21_value")
    /\ UNCHANGED <<task_id_counter, heap, response, prev, issued, deleted, frame, resp>>
    /\ UNCHANGED <<nreq, step>>

\* line 21: tasks[task_id_counter]["id"] = task_id_counter -- the value is read,
create_21_value(p) ==
    /\ pc[p] = "create_21_value"
    /\ frame' = [frame EXCEPT ![p].v = task_id_counter]
    /\ Goto(p, "create_21_key")
    /\ UNCHANGED <<tasks, task_id_counter, heap, response, prev, issued, deleted, resp>>
    /\ UNCHANGED <<nreq, step>>

\* then the key,
create_21_key(p) ==
    /\ pc[p] = "create_21_key"
    /\ frame' = [frame EXCEPT ![p].k = task_id_counter]
    /\ Goto(p, "create_21_subscr")
    /\ UNCHANGED <<tasks, task_id_counter, heap, response, prev, issued, deleted, resp>>
    /\ UNCHANGED <<nreq, step>>

\* then tasks[key] is looked up,
create_21_subscr(p) ==
    /\ pc[p] = "create_21_subscr"
    /\ IF Contains(tasks, frame[p].k)
       THEN /\ frame' = [frame EXCEPT ![p].obj = GetItem(tasks, frame[p].k)]
            /\ Goto(p, "create_21_store")
            /\ UNCHANGED resp
       ELSE /\ Raise(p)
            /\ UNCHANGED frame
    /\ UNCHANGED <<tasks, task_id_counter, heap, response, prev, issued, deleted>>
    /\ UNCHANGED <<nreq, step>>

\* and "id" is written into the dict found.
create_21_store(p) ==
    /\ pc[p] = "create_21_store"
    /\ heap' = [heap EXCEPT ![frame[p].obj] = DictSetItem(@, "id", frame[p].v)]
    /\ Goto(p, "create_22_load")
    /\ UNCHANGED <<tasks, task_id_counter, response, prev, issued, deleted, frame, resp>>
    /\ UNCHANGED <<nreq, step>>

\* line 22: task_id_counter += 1 -- load,
create_22_load(p) ==
    /\ pc[p] = "create_22_load"
    /\ frame' = [frame EXCEPT ![p].v = task_id_counter]
    /\ Goto(p, "create_22_store")
    /\ UNCHANGED <<tasks, task_id_counter, heap, response, prev, issued, deleted, resp>>
    /\ UNCHANGED <<nreq, step>>

\* add and store.
create_22_store(p) ==
    /\ pc[p] = "create_22_store"
    /\ task_id_counter' = frame[p].v + 1
    /\ Goto(p, "create_23_load")
    /\ UNCHANGED <<tasks, heap, response, prev, issued, deleted, frame, resp>>
    /\ UNCHANGED <<nreq, step>>

\* line 23: return tasks[task_id_counter - 1] -- the key is computed,
create_23_load(p) ==
    /\ pc[p] = "create_23_load"
    /\ frame' = [frame EXCEPT ![p].k = task_id_counter - 1]
    /\ Goto(p, "create_23_subscr")
    /\ UNCHANGED <<tasks, task_id_counter, heap, response, prev, issued, deleted, resp>>
    /\ UNCHANGED <<nreq, step>>

\* and looked up.
create_23_subscr(p) ==
    /\ pc[p] = "create_23_subscr"
    /\ IF Contains(tasks, frame[p].k)
       THEN /\ frame' = [frame EXCEPT ![p].ret = GetItem(tasks, frame[p].k)]
            /\ Goto(p, "respond")
            /\ UNCHANGED resp
       ELSE /\ Raise(p)
            /\ UNCHANGED frame
    /\ UNCHANGED <<tasks, task_id_counter, heap, response, prev, issued, deleted>>
    /\ UNCHANGED <<nreq, step>>

\* line 27: return list(tasks.values())
get_tasks_27(p) ==
    /\ pc[p] = "get_tasks_27"
    /\ frame' = [frame EXCEPT ![p].refs = Values(tasks),
                              ![p].keys = [i \in 1..Len(tasks) |-> tasks[i].key]]
    /\ Goto(p, "respond")
    /\ UNCHANGED <<tasks, task_id_counter, heap, response, prev, issued, deleted, resp>>
    /\ UNCHANGED <<nreq, step>>

\* lines 31-32: if task_id not in tasks: raise HTTPException(404)
update_31(p) ==
    /\ pc[p] = "update_31"
    /\ IF ~Contains(tasks, frame[p].task_id)
       THEN /\ resp' = [resp EXCEPT ![p] = [op |-> "update", task_id |-> frame[p].task_id,
                                            input |-> frame[p].input, status |-> 404,
                                            body |-> NotFound]]
            /\ Goto(p, "idle")
       ELSE /\ Goto(p, "update_33_subscr")
            /\ UNCHANGED resp
    /\ UNCHANGED <<tasks, task_id_counter, heap, response, prev, issued, deleted, frame>>
    /\ UNCHANGED <<nreq, step>>

\* line 33: tasks[task_id].update(updated_task.dict()) -- the lookup,
update_33_subscr(p) ==
    /\ pc[p] = "update_33_subscr"
    /\ IF Contains(tasks, frame[p].task_id)
       THEN /\ frame' = [frame EXCEPT ![p].obj = GetItem(tasks, frame[p].task_id)]
            /\ Goto(p, "update_33_update")
            /\ UNCHANGED resp
       ELSE /\ Raise(p)
            /\ UNCHANGED frame
    /\ UNCHANGED <<tasks, task_id_counter, heap, response, prev, issued, deleted>>
    /\ UNCHANGED <<nreq, step>>

\* and the update of the dict found.
update_33_update(p) ==
    /\ pc[p] = "update_33_update"
    /\ heap' = [heap EXCEPT ![frame[p].obj] = DictUpdate(@, TaskDict(Task(frame[p].input)))]
    /\ Goto(p, "update_34")
    /\ UNCHANGED <<tasks, task_id_counter, response, prev, issued, deleted, frame, resp>>
    /\ UNCHANGED <<nreq, step>>

\* line 34: return tasks[task_id]
update_34(p) ==
    /\ pc[p] = "update_34"
    /\ IF Contains(tasks, frame[p].task_id)
       THEN /\ frame' = [frame EXCEPT ![p].ret = GetItem(tasks, frame[p].task_id)]
            /\ Goto(p, "respond")
            /\ UNCHANGED resp
       ELSE /\ Raise(p)
            /\ UNCHANGED frame
    /\ UNCHANGED <<tasks, task_id_counter, heap, response, prev, issued, deleted>>
    /\ UNCHANGED <<nreq, step>>

\* lines 38-39: if task_id not in tasks: raise HTTPException(404)
delete_38(p) ==
    /\ pc[p] = "delete_38"
    /\ IF ~Contains(tasks, frame[p].task_id)
       THEN /\ resp' = [resp EXCEPT ![p] = [op |-> "delete", task_id |-> frame[p].task_id,
                                            input |-> NoInput, status |-> 404,
                                            body |-> NotFound]]
            /\ Goto(p, "idle")
       ELSE /\ Goto(p, "delete_40")
            /\ UNCHANGED resp
    /\ UNCHANGED <<tasks, task_id_counter, heap, response, prev, issued, deleted, frame>>
    /\ UNCHANGED <<nreq, step>>

\* line 40: return tasks.pop(task_id)
delete_40(p) ==
    /\ pc[p] = "delete_40"
    /\ IF Contains(tasks, frame[p].task_id)
       THEN /\ frame' = [frame EXCEPT ![p].ret = GetItem(tasks, frame[p].task_id)]
            /\ tasks' = Pop(tasks, frame[p].task_id)
            /\ deleted' = deleted \cup {frame[p].task_id}
            /\ Goto(p, "respond")
            /\ UNCHANGED resp
       ELSE /\ Raise(p)
            /\ UNCHANGED <<frame, tasks, deleted>>
    /\ UNCHANGED <<task_id_counter, heap, response, prev, issued>>
    /\ UNCHANGED <<nreq, step>>

\* The id of a record, 0 when the record has none.
IdOf(rec) == IF "id" \in DOMAIN rec THEN rec.id ELSE 0

\* The handler has returned a reference (or a list of references); the
\* framework serialises what the dicts hold at that later moment.
respond(p) ==
    /\ pc[p] = "respond"
    /\ LET body == IF frame[p].op = "list" THEN Serialize(heap, frame[p].refs)
                   ELSE heap[frame[p].ret]
       IN /\ resp' = [resp EXCEPT ![p] = [op |-> frame[p].op, task_id |-> frame[p].task_id,
                                          input |-> frame[p].input, status |-> 200,
                                          body |-> body]]
          /\ issued' = IF frame[p].op = "create" THEN Append(issued, IdOf(body)) ELSE issued
    /\ Goto(p, "idle")
    /\ UNCHANGED <<tasks, task_id_counter, heap, response, prev, deleted, frame>>
    /\ UNCHANGED <<nreq, step>>

ConcTaskIds == 1..MaxObjects

\* The request bodies of the concurrent runs: one that omits completed and
\* one that sets it.
ConcInputs ==
    {[title |-> "A", description |-> "d1"],
     [title |-> "B", description |-> "d1", completed |-> TRUE]}

NextConc ==
    \E p \in Threads :
        \/ \E task \in ConcInputs : Recv_create(p, task)
        \/ Recv_list(p)
        \/ \E task_id \in ConcTaskIds, updated_task \in ConcInputs :
               Recv_update(p, task_id, updated_task)
        \/ \E task_id \in ConcTaskIds : Recv_delete(p, task_id)
        \/ create_19(p)
        \/ create_20_load(p)
        \/ create_20_store(p)
        \/ create_21_value(p)
        \/ create_21_key(p)
        \/ create_21_subscr(p)
        \/ create_21_store(p)
        \/ create_22_load(p)
        \/ create_22_store(p)
        \/ create_23_load(p)
        \/ create_23_subscr(p)
        \/ get_tasks_27(p)
        \/ update_31(p)
        \/ update_33_subscr(p)
        \/ update_33_update(p)
        \/ update_34(p)
        \/ delete_38(p)
        \/ delete_40(p)
        \/ respond(p)

SpecConc == Init /\ [][NextConc]_vars

\* ====================================================== properties of Spec
Range(f) == {f[i] : i \in DOMAIN f}
HasFields(rec) == DOMAIN rec = {"id", "title", "description", "completed"}

\* C1: the id returned by each create is strictly greater than the id returned
\* by every earlier create, whatever was deleted in between, and
\* task_id_counter is strictly greater than every id ever issued.
C1_IdsStrictlyIncrease ==
    /\ \A i, j \in 1..Len(issued) : i < j => issued[i] < issued[j]
    /\ \A i \in 1..Len(issued) : task_id_counter > issued[i]

\* A create was answered after an earlier task had been deleted.
C1_Witness ==
    /\ response.op = "create"
    /\ Len(issued) >= 2
    /\ deleted # {}

\* C2: every key k of tasks maps to a record whose "id" field is k
\* (also after updates).
C2_KeyEqualsId ==
    \A k \in Keys(tasks) :
        /\ "id" \in DOMAIN Record(tasks, heap, k)
        /\ Record(tasks, heap, k).id = k

\* An update of a stored task succeeded while several tasks are stored.
C2_Witness ==
    /\ response.op = "update"
    /\ response.status = 200
    /\ Len(tasks) >= 2

\* C3: update and delete of an id that is not a key answer 404 and leave
\* tasks, the records and task_id_counter as they were.
C3_NotFoundLeavesStore ==
    [][(response'.op \in {"update", "delete"} /\ ~Contains(tasks, response'.task_id))
          => /\ response'.status = 404
             /\ tasks' = tasks
             /\ heap' = heap
             /\ task_id_counter' = task_id_counter]_vars

\* An update of a deleted id was refused while other tasks are stored.
C3_Witness ==
    /\ response.op = "update"
    /\ response.status = 404
    /\ response.task_id \in deleted
    /\ Len(tasks) >= 1

\* C4: a successful update replaces title, description and completed by the
\* values of the body (completed false when the body omits it), keeps the id,
\* and answers the record as stored after the update.
C4_UpdateReplaces ==
    [][(response'.op = "update" /\ response'.status = 200)
          => LET k == response'.task_id
                 body == response'.input
                 rec == response'.body
             IN /\ Contains(tasks, k) /\ Contains(tasks', k)
                /\ rec = Record(tasks', heap', k)
                /\ HasFields(rec)
                /\ rec.title = body.title
                /\ rec.description = body.description
                /\ rec.completed = (IF "completed" \in DOMAIN body
                                    THEN body.completed ELSE FALSE)
                /\ rec.id = Record(tasks, heap, k).id
                /\ rec.id = k]_vars

\* An update whose body omits completed succeeded.
C4_Witness ==
    /\ response.op = "update"
    /\ response.status = 200
    /\ "completed" \notin DOMAIN response.input
    /\ response.body.title = "B"
    /\ response.body.completed = FALSE

\* C5: a successful delete removes exactly the key it names, answers the
\* record stored under it, and leaves task_id_counter, the other records and
\* their order unchanged.
C5_DeleteFrame ==
    [][(response'.op = "delete" /\ response'.status = 200)
          => LET k == response'.task_id
             IN /\ Contains(tasks, k)
                /\ Keys(tasks') = Keys(tasks) \ {k}
                /\ response'.body = Record(tasks, heap, k)
                /\ task_id_counter' = task_id_counter
                /\ \A j \in Keys(tasks) \ {k} :
                       Record(tasks', heap', j) = Record(tasks, heap, j)
                /\ tasks' = SelectSeq(tasks, LAMBDA e : e.key # k)]_vars

\* The oldest of several stored tasks was deleted.
C5_Witness ==
    /\ response.op = "delete"
    /\ response.status = 200
    /\ Len(tasks) >= 2
    /\ \A k \in Keys(tasks) : k > response.task_id

\* C6: a list served right after a create contains a record equal to the
\* record the create answered.
C6_ListAfterCreate ==
    (response.op = "list" /\ prev.op = "create") => prev.body \in Range(response.body)

\* A list was served right after a create, with an older task also stored.
C6_Witness ==
    /\ response.op = "list"
    /\ prev.op = "create"
    /\ Len(response.body) >= 2

\* C7: list answers exactly the stored records, each once, in ascending id
\* order, the empty sequence for an empty store, and changes nothing.
C7_ListExact ==
    [][response'.op = "list"
          => /\ tasks' = tasks /\ heap' = heap /\ task_id_counter' = task_id_counter
             /\ Len(response'.body) = Cardinality(Keys(tasks))
             /\ \A k \in Keys(tasks) : Record(tasks, heap, k) \in Range(response'.body)
             /\ \A i, j \in 1..Len(response'.body) :
                    i < j => response'.body[i].id < response'.body[j].id
             /\ (tasks = <<>> => response'.body = <<>>)]_vars

\* Several tasks were listed after a deletion.
C7_Witness ==
    /\ response.op = "list"
    /\ Len(response.body) >= 2
    /\ deleted # {}

\* C8: a deleted id is never a key again, and every later update or delete of
\* it answers 404.
C8_DeletedStaysDeleted ==
    [][/\ deleted' \cap Keys(tasks') = {}
       /\ (response'.op \in {"update", "delete"} /\ response'.task_id \in deleted)
             => response'.status = 404]_vars

\* A second delete of an id was refused after later creates.
C8_Witness ==
    /\ response.op = "delete"
    /\ response.status = 404
    /\ response.task_id \in deleted
    /\ task_id_counter > response.task_id + 1
    /\ Len(tasks) >= 1

\* C13: in a sequential run from process start the k-th create stores and
\* returns the record with id k and the fields of its body (completed false
\* when omitted), and task_id_counter is 1 + the number of creates so far,
\* whatever updates, deletes and lists happened in between.
C13_KthCreate ==
    /\ task_id_counter = Len(issued) + 1
    /\ \A k \in 1..Len(issued) : issued[k] = k
    /\ response.op = "create"
          => LET k == Len(issued)
                 body == response.input
             IN /\ response.status = 200
                /\ response.body =
                       [id |-> k, title |-> body.title, description |-> body.description,
                        completed |-> IF "completed" \in DOMAIN body
                                      THEN body.completed ELSE FALSE]
                /\ Contains(tasks, k)
                /\ Record(tasks, heap, k) = response.body

\* The third create, with completed omitted, was served after a deletion.
C13_Witness ==
    /\ response.op = "create"
    /\ Len(issued) = 3
    /\ deleted # {}
    /\ "completed" \notin DOMAIN response.input

\* C14: create and a successful update leave every record they do not target
\* as it was; a successful update also leaves the keys (and their order) and
\* task_id_counter as they were; task_id_counter changes only in create.
C14_CreateUpdateFrame ==
    [][/\ response'.op = "create"
             => \A k \in Keys(tasks) :
                    /\ Contains(tasks', k)
                    /\ Record(tasks', heap', k) = Record(tasks, heap, k)
       /\ (response'.op = "update" /\ response'.status = 200)
             => /\ \A k \in Keys(tasks) \ {response'.task_id} :
                       Record(tasks', heap', k) = Record(tasks, heap, k)
                /\ tasks' = tasks
                /\ task_id_counter' = task_id_counter
       /\ task_id_counter' # task_id_counter => response'.op = "create"]_vars

\* One of several stored tasks was updated after a deletion.
C14_Witness ==
    /\ response.op = "update"
    /\ response.status = 200
    /\ Len(tasks) >= 2
    /\ deleted # {}
    /\ response.body.title = "B"

\* ====================================================== properties of SpecScenario
\* C12: from a fresh store the scenario create A/d1 ; create B/d2/true ; list ;
\* delete(1) ; list ; update(2, B2/d2) ; update(99, ...) answers in order
\* {id 1, A, d1, completed false}; a record with id 2; [id 1, id 2]; the
\* record with id 1; [id 2] only; {id 2, title B2, completed false}; 404.
C12_Scenario ==
    /\ step = 1 => /\ response.status = 200
                   /\ response.body = [id |-> 1, title |-> "A", description |-> "d1",
                                       completed |-> FALSE]
    /\ step = 2 => /\ response.status = 200
                   /\ response.body.id = 2
    /\ step = 3 => /\ response.status = 200
                   /\ Len(response.body) = 2
                   /\ response.body[1].id = 1
                   /\ response.body[2].id = 2
    /\ step = 4 => /\ response.status = 200
                   /\ response.body.id = 1
    /\ step = 5 => /\ response.status = 200
                   /\ Len(response.body) = 1
                   /\ response.body[1].id = 2
    /\ step = 6 => /\ response.status = 200
                   /\ response.body.id = 2
                   /\ response.body.title = "B2"
                   /\ response.body.completed = FALSE
    /\ step = 7 => response.status = 404

\* The whole scenario has been run.
C12_Witness == step = Len(Script) /\ response.op = "update" /\ response.task_id = 99


Quiescent == \A p \in Threads : pc[p] = "idle"

\* C9: when create requests overlap (and nothing was deleted), once they have
\* all been answered every create got an id of its own, every dict created is
\* stored under its own id, task_id_counter advanced by the number of creates,
\* and every create returned the dict it created.
C9_ConcurrentCreates ==
    (Quiescent /\ deleted = {})
        => /\ Len(issued) = Len(heap)
           /\ \A i, j \in 1..Len(issued) : i # j => issued[i] # issued[j]
           /\ \A r \in 1..Len(heap) :
                  /\ "id" \in DOMAIN heap[r]
                  /\ Contains(tasks, heap[r].id)
                  /\ GetItem(tasks, heap[r].id) = r
           /\ task_id_counter = 1 + Len(heap)
           /\ \A p \in Threads :
                  (frame[p].op = "create" /\ resp[p].status = 200)
                      => frame[p].ret = frame[p].task_data

\* C10: a list that overlaps a create (the only create so far, nothing
\* deleted) answers only complete records: each has the four fields and its
\* id is the key it was stored under when the list was taken.
C10_ListSeesWholeRecords ==
    \A p \in Threads :
        (pc[p] = "idle" /\ frame[p].op = "list" /\ resp[p].op = "list"
            /\ Len(heap) <= 1 /\ deleted = {})
            => \A i \in 1..Len(resp[p].body) :
                   /\ HasFields(resp[p].body[i])
                   /\ resp[p].body[i].id = frame[p].keys[i]

\* C11: under any interleaving of create, list, update and delete requests,
\* every request is answered with success (200) or NotFound (404); no lookup
\* of a key that another thread removed or never stored fails otherwise.
C11_OnlySuccessOrNotFound ==
    \A p \in Threads : resp[p].status \in {0, 200, 404}

====
